---- MODULE Spec2Model ----
(***************************************************************************)
(* Model of lib/OutgoingStreamTrack.js: the attach / mute / detach / stop  *)
(* lifecycle of one outgoing track and of the transponders (forwarding     *)
(* links) it creates.                                                      *)
(*                                                                         *)
(* Every method of the class is an operator from a world record to the     *)
(* world record after the call (the methods run to completion on one       *)
(* thread); an action applies one whole public call to the variables.      *)
(* lib/Transponder.js is not part of the sources at hand: the link         *)
(* operators (Link...) follow the interface contract of the specification. *)
(***************************************************************************)
EXTENDS Integers, Sequences, FiniteSets, TLC

\* ------------------------------------------------------------------ bounds
\* Number of public calls / native notifications in one behaviour.
MaxOps == 5

\* ------------------------------------------------------------- value sets
\* Incoming stream tracks a caller can attach to.
IncomingTracks == {"in1", "in2"}

\* `none` marks a link that has not been bound to an incoming track yet.
NoIncoming == "none"

\* JavaScript's two empty values, for the fields the code only ever clears.
Undefined == "undefined"
Null == "null"

\* The sender handle handed to the constructor.
TheSender == "sender"

\* this.transponder before the first attachTo: the field is not set by the
\* constructor, so it reads as undefined (falsy).  Links are numbered 1..
NoLink == 0

\* An optional reference: <<x>> holds x, <<>> is null or undefined.
Some(x) == <<x>>
None == <<>>

\* One outgoing source: its counters, and what its bitrate accumulator's
\* GetInstant() answers.
OutgoingSource(np, nrp, tb, trb, inst) ==
    [numPackets |-> np, numRTCPPackets |-> nrp, totalBytes |-> tb,
     totalRTCPBytes |-> trb, instant |-> inst]

SourceA == OutgoingSource(100, 5, 15000, 400, 64000)
SourceB == OutgoingSource(7, 1, 900, 60, 8000)

\* Source triples handed to the constructor: media present, rtx and fec
\* present or absent.
SourceTriples ==
    [media : {Some(SourceA)}, rtx : {None, Some(SourceB)},
     fec : {None, Some(SourceB)}]

\* Source triples for the statistics: every role present or absent.
StatsTriples ==
    [media : {None, Some(SourceA), Some(SourceB)},
     rtx : {None, Some(SourceA), Some(SourceB)},
     fec : {None, Some(SourceA), Some(SourceB)}]

\* Bitrate estimations the native engine reports.
Bitrates == {300000, 500000}

VARIABLES
    muted,        \* this.muted
    sender,       \* this.sender
    source,       \* this.source
    transponder,  \* this.transponder
    transpoder,   \* this.transpoder   (written by onTransponderStopped)
    transport,    \* this.transport    (written by detach)
    links,        \* every Transponder created so far, in creation order
    events,       \* what this.emitter has emitted, in order
    stopSubscriber, \* a once("stopped") listener that calls stop() is set
    returned,     \* what the latest call returned or threw
    history       \* the calls and native notifications so far, in order

vars == <<muted, sender, source, transponder, transpoder, transport,
          links, events, stopSubscriber, returned, history>>

\* The track and its links as one value.
World == [muted |-> muted, sender |-> sender, source |-> source,
          transponder |-> transponder, transpoder |-> transpoder,
          transport |-> transport, links |-> links, events |-> events,
          stopSubscriber |-> stopSubscriber]

\* An emitted notification of the track.
Event(name, flag) == [name |-> name, flag |-> flag, bitrate |-> 0]

\* The "remb" notification: (track, bitrate).
RembEvent(bitrate) == [name |-> "remb", flag |-> FALSE, bitrate |-> bitrate]

\* A method invocation made on a link.
Call(m, flag, inc) == [m |-> m, flag |-> flag, inc |-> inc]

\* this.emitter.emit(name, ...)
Emit(w, name, flag) == [w EXCEPT !.events = Append(@, Event(name, flag))]

\* ------------------------------------------------- OutgoingStreamTrack.js
\* this.onTransponderStopped: writes the field `transpoder`.
OnTransponderStopped(w) == [w EXCEPT !.transpoder = Null]

\* this.onremb that drops an estimation equal to the one before it.
OnRembDeduplicated(w, bitrate) ==
    IF /\ w.events # <<>>
       /\ w.events[Len(w.events)] = RembEvent(bitrate)
    THEN w
    ELSE [w EXCEPT !.events = Append(@, RembEvent(bitrate))]

\* this.onremb(bitrate): emit("remb", this, bitrate)
OnRemb(w, bitrate) == [w EXCEPT !.events = Append(@, RembEvent(bitrate))]

\* ------------------------------------------------------ the link contract
\* new Transponder(new Native.RTPStreamTransponderFacade(source,sender,this))
NewLink(src, snd) ==
    [source |-> src, sender |-> snd, muted |-> FALSE, track |-> NoIncoming,
     live |-> TRUE, autonomous |-> FALSE, listener |-> FALSE,
     calls |-> <<>>, endedAt |-> -1]

\* The link's one-shot "stopped" notification: the link ends, and the
\* track's handler runs if it is subscribed (once: it is removed first).
LinkFireStopped(w, l, auto) ==
    LET had == w.links[l].listener
        w1  == [w EXCEPT !.links[l].live = FALSE,
                         !.links[l].autonomous = auto,
                         !.links[l].listener = FALSE,
                         !.links[l].endedAt = Len(w.links[l].calls)]
    IN  IF had THEN OnTransponderStopped(w1) ELSE w1

\* link.mute(muting): applied immediately, whatever was called before.
LinkMute(w, l, muting) ==
    [w EXCEPT !.links[l].muted = muting,
              !.links[l].calls = Append(@, Call("mute", muting, NoIncoming))]

\* link.setIncomingTrack(incoming)
LinkSetIncomingTrack(w, l, inc) ==
    [w EXCEPT !.links[l].track = inc,
              !.links[l].calls = Append(@, Call("setIncomingTrack", FALSE, inc))]

\* link.once("stopped", this.onTransponderStopped)
LinkOnce(w, l) ==
    [w EXCEPT !.links[l].listener = TRUE,
              !.links[l].calls = Append(@, Call("once", FALSE, NoIncoming))]

\* link.off("stopped", this.onTransponderStopped)
LinkOff(w, l) ==
    [w EXCEPT !.links[l].listener = FALSE,
              !.links[l].calls = Append(@, Call("off", FALSE, NoIncoming))]

\* link.stop(): the call is recorded; the terminal notification fires only
\* if the link has not ended yet (it fires once in the link's lifetime).
LinkStop(w, l) ==
    LET w1 == [w EXCEPT !.links[l].calls =
                            Append(@, Call("stop", FALSE, NoIncoming))]
    IN  IF w.links[l].live THEN LinkFireStopped(w1, l, FALSE) ELSE w1

\* ------------------------------------------------- OutgoingStreamTrack.js
\* detach() that forgets to stop the link it lets go of.
DetachNoStop(w) ==
    IF w.transponder = NoLink
    THEN w
    ELSE [LinkOff(w, w.transponder) EXCEPT !.transport = Null]

\* detach() that stops the link before it removes its listener.
DetachStopFirst(w) ==
    IF w.transponder = NoLink
    THEN w
    ELSE LET w1 == LinkStop(w, w.transponder)
             w2 == LinkOff(w1, w.transponder)
         IN  [w2 EXCEPT !.transport = Null]

\* detach()
Detach(w) ==
    IF w.transponder = NoLink
    THEN w
    ELSE LET w1 == LinkOff(w, w.transponder)
             w2 == LinkStop(w1, w.transponder)
         IN  [w2 EXCEPT !.transport = Null]

\* mute() that notifies on every call, changed flag or not.
MuteAlwaysEmits(w, muting) ==
    LET w1 == IF w.transponder # NoLink
              THEN LinkMute(w, w.transponder, muting)
              ELSE w
    IN  Emit([w1 EXCEPT !.muted = muting], "muted", muting)

\* mute(muting)
Mute(w, muting) ==
    LET w1 == IF w.transponder # NoLink
              THEN LinkMute(w, w.transponder, muting)
              ELSE w
    IN  IF w1.muted # muting
        THEN Emit([w1 EXCEPT !.muted = muting], "muted", muting)
        ELSE w1

\* attachTo() that does not detach the previous link first.
AttachToNoDetach(w, inc) ==
    LET l  == Len(w.links) + 1
        w2 == [w EXCEPT !.links = Append(@, NewLink(w.source, w.sender)),
                        !.transponder = l]
        w3 == IF w2.muted THEN LinkMute(w2, l, w2.muted) ELSE w2
        w4 == LinkSetIncomingTrack(w3, l, inc)
    IN  LinkOnce(w4, l)

\* attachTo() that does not carry the muted flag over to the new link.
AttachToNoMute(w, inc) ==
    LET w1 == Detach(w)
        l  == Len(w1.links) + 1
        w2 == [w1 EXCEPT !.links = Append(@, NewLink(w1.source, w1.sender)),
                         !.transponder = l]
        w4 == LinkSetIncomingTrack(w2, l, inc)
    IN  LinkOnce(w4, l)

\* attachTo() that binds the incoming track before it mutes the link.
AttachToBindFirst(w, inc) ==
    LET w1 == Detach(w)
        l  == Len(w1.links) + 1
        w2 == [w1 EXCEPT !.links = Append(@, NewLink(w1.source, w1.sender)),
                         !.transponder = l]
        w3 == LinkSetIncomingTrack(w2, l, inc)
        w4 == IF w3.muted THEN LinkMute(w3, l, w3.muted) ELSE w3
    IN  LinkOnce(w4, l)

\* attachTo() that starts the new link, and the track, unmuted.
AttachToResetsMute(w, inc) ==
    LET w1 == Detach(w)
        l  == Len(w1.links) + 1
        w2 == [w1 EXCEPT !.links = Append(@, NewLink(w1.source, w1.sender)),
                         !.transponder = l,
                         !.muted = FALSE]
        w4 == LinkSetIncomingTrack(w2, l, inc)
    IN  LinkOnce(w4, l)

\* attachTo(incomingStreamTrack)
AttachTo(w, inc) ==
    LET w1 == Detach(w)
        l  == Len(w1.links) + 1
        w2 == [w1 EXCEPT !.links = Append(@, NewLink(w1.source, w1.sender)),
                         !.transponder = l]
        w3 == IF w2.muted THEN LinkMute(w2, l, w2.muted) ELSE w2
        w4 == LinkSetIncomingTrack(w3, l, inc)
    IN  LinkOnce(w4, l)

\* stop() without the "don't call it twice" guard.
StopUnguarded(w) ==
    LET w1 == Detach(w)
        w2 == Emit(w1, "stopped", FALSE)
    IN  [w2 EXCEPT !.source = None, !.sender = Null]

\* stop().  emit("stopped") runs the subscribers before it returns: a
\* once() subscriber that calls stop() is taken off the emitter and then
\* re-enters stop() while this.sender is still set.
RECURSIVE Stop(_)
Stop(w) ==
    IF w.sender = Null
    THEN w
    ELSE LET w1 == Detach(w)
             w2 == Emit(w1, "stopped", FALSE)
             w3 == IF w2.stopSubscriber
                   THEN Stop([w2 EXCEPT !.stopSubscriber = FALSE])
                   ELSE w2
         IN  [w3 EXCEPT !.source = None, !.sender = Null]

\* once("stopped", () => track.stop())
OnceStopped(w) == [w EXCEPT !.stopSubscriber = TRUE]

\* getTransponder()
GetTransponder(w) == w.transponder

\* The substream roles of a source triple.
Roles == {"media", "rtx", "fec"}

\* A call that threw, and a call that returned v.
Threw == [threw |-> TRUE, value |-> None]
Returned(v) == [threw |-> FALSE, value |-> Some(v)]

\* getStatsFromOutgoingSource() with the two byte totals swapped.
GetStatsSwappedBytes(src) ==
    [numPackets     |-> src.numPackets,
     numRTCPPackets |-> src.numRTCPPackets,
     totalBytes     |-> src.totalRTCPBytes,
     totalRTCPBytes |-> src.totalBytes,
     bitrate        |-> src.instant * 8]

\* getStatsFromOutgoingSource(source), for a source that is there.
GetStatsFromOutgoingSource(src) ==
    [numPackets     |-> src.numPackets,
     numRTCPPackets |-> src.numRTCPPackets,
     totalBytes     |-> src.totalBytes,
     totalRTCPBytes |-> src.totalRTCPBytes,
     bitrate        |-> src.instant * 8]

\* getStats(): reading a property of this.source after stop() (null), or
\* of a role that is not there (undefined), throws a TypeError.
GetStats(w) ==
    IF w.source = None
    THEN Threw
    ELSE LET triple == w.source[1]
         IN  IF \E r \in Roles : triple[r] = None
             THEN Threw
             ELSE Returned([r \in Roles |->
                               GetStatsFromOutgoingSource(triple[r][1])])

\* ---------------------------------------------------------------- actions
Op(name, flag, inc) ==
    [op |-> name, flag |-> flag, inc |-> inc, bitrate |-> 0]

\* The native engine's call of onremb(bitrate).
RembOp(bitrate) ==
    [op |-> "remb", flag |-> FALSE, inc |-> NoIncoming, bitrate |-> bitrate]

\* What a call that answers nothing of interest leaves in `returned`.
NoResult == [threw |-> FALSE, value |-> None]

\* Number of calls and notifications so far, and the latest of them.
nops == Len(history)

lastOp == IF history = <<>> THEN Op("new", FALSE, NoIncoming)
          ELSE history[Len(history)]

\* The variables take the values of world w after call o.
Apply(w, o) ==
    /\ muted' = w.muted
    /\ sender' = w.sender
    /\ source' = w.source
    /\ transponder' = w.transponder
    /\ transpoder' = w.transpoder
    /\ transport' = w.transport
    /\ links' = w.links
    /\ events' = w.events
    /\ stopSubscriber' = w.stopSubscriber
    /\ returned' = NoResult
    /\ history' = Append(history, o)

\* A query: the track and its links stay as they are, r is its outcome.
ApplyQuery(r, o) ==
    /\ UNCHANGED <<muted, sender, source, transponder, transpoder, transport,
                   links, events, stopSubscriber>>
    /\ returned' = r
    /\ history' = Append(history, o)

Init ==
    /\ muted = FALSE
    /\ sender = TheSender
    /\ source \in {Some(s) : s \in SourceTriples}
    /\ transponder = NoLink
    /\ transpoder = Undefined
    /\ transport = Undefined
    /\ links = <<>>
    /\ events = <<>>
    /\ stopSubscriber = FALSE
    /\ returned = NoResult
    /\ history = <<>>

CallAttachTo ==
    /\ nops < MaxOps
    /\ \E inc \in IncomingTracks :
           Apply(AttachTo(World, inc), Op("attachTo", FALSE, inc))

CallDetach ==
    /\ nops < MaxOps
    /\ Apply(Detach(World), Op("detach", FALSE, NoIncoming))

CallMute ==
    /\ nops < MaxOps
    /\ \E muting \in BOOLEAN :
           Apply(Mute(World, muting), Op("mute", muting, NoIncoming))

CallStop ==
    /\ nops < MaxOps
    /\ Apply(Stop(World), Op("stop", FALSE, NoIncoming))

\* The native engine ends a link that is still running (for instance the
\* incoming track it is bound to has stopped).
LinkTerminates ==
    /\ nops < MaxOps
    /\ \E l \in 1..Len(links) :
           /\ links[l].live
           /\ Apply(LinkFireStopped(World, l, TRUE),
                    Op("linkStopped", FALSE, NoIncoming))

CallGetStats ==
    /\ nops < MaxOps
    /\ ApplyQuery(GetStats(World), Op("getStats", FALSE, NoIncoming))

\* The native engine reports a bitrate estimation.
NativeRemb ==
    /\ nops < MaxOps
    /\ \E bitrate \in Bitrates :
           Apply(OnRemb(World, bitrate), RembOp(bitrate))

\* A subscriber that stops the track from inside its "stopped" handler
\* (one such subscriber at a time).
CallOnceStopped ==
    /\ nops < MaxOps
    /\ ~stopSubscriber
    /\ Apply(OnceStopped(World), Op("once", FALSE, NoIncoming))

Next ==
    \/ CallAttachTo
    \/ CallDetach
    \/ CallMute
    \/ CallStop
    \/ LinkTerminates

Spec == Init /\ [][Next]_vars

\* Only attachTo is ever called.
NextAttach == CallAttachTo

SpecAttach == Init /\ [][NextAttach]_vars

\* The statistics of a track built over any source triple.
InitStats ==
    /\ muted = FALSE
    /\ sender = TheSender
    /\ source \in {Some(s) : s \in StatsTriples}
    /\ transponder = NoLink
    /\ transpoder = Undefined
    /\ transport = Undefined
    /\ links = <<>>
    /\ events = <<>>
    /\ stopSubscriber = FALSE
    /\ returned = NoResult
    /\ history = <<>>

NextStats ==
    \/ CallGetStats
    \/ CallStop

SpecStats == InitStats /\ [][NextStats]_vars

\* Bitrate estimations arriving at any point of the track's life.
NextRemb ==
    \/ NativeRemb
    \/ CallMute
    \/ CallStop

SpecRemb == Init /\ [][NextRemb]_vars

\* The track with a subscriber that re-enters stop().
NextReentrant ==
    \/ CallOnceStopped
    \/ CallAttachTo
    \/ CallStop

SpecReentrant == Init /\ [][NextReentrant]_vars

\* ------------------------------------------------------------- properties
LinkIds == 1..Len(links)

\* Number of times method m was invoked on link l.
Invocations(l, m) ==
    Cardinality({i \in 1..Len(links[l].calls) : links[l].calls[i].m = m})

LiveLinks == {l \in LinkIds : links[l].live}

\* Number of calls of operation o made so far.
Calls(o) == Cardinality({i \in 1..Len(history) : history[i].op = o})

\* C1: when only attachTo is called, after each call the track references
\* the link just created, that link is the one and only live link, and
\* every link created before it has had stop() invoked exactly once.
C1_AttachOnlyOneLiveLink ==
    lastOp.op = "attachTo" =>
        /\ GetTransponder(World) = Len(links)
        /\ LiveLinks = {Len(links)}
        /\ \A l \in 1..(Len(links) - 1) : Invocations(l, "stop") = 1

C1_Witness ==
    /\ Calls("attachTo") = 3
    /\ Len(links) = 3
    /\ Invocations(1, "stop") = 1
    /\ Invocations(2, "stop") = 1
    /\ links[3].live

\* C2: in every reachable state every live link is the link the track
\* references, so at most one link is live and no live link has been
\* replaced or forgotten.
C2_LiveLinkIsCurrent ==
    \A l \in LinkIds : links[l].live => l = GetTransponder(World)

C2_Witness ==
    /\ Len(links) >= 2
    /\ links[Len(links)].live
    /\ \E l \in LinkIds : links[l].autonomous
    /\ Calls("detach") >= 1

\* C3: the track never invokes stop() more than once on the same link.
C3_StopAtMostOncePerLink ==
    \A l \in LinkIds : Invocations(l, "stop") <= 1

\* C4: right after detach() or stop() the link reference is none, and it
\* stays none until the next attachTo.
C4_ReferenceClearedByDetach ==
    [][/\ lastOp'.op \in {"detach", "stop"}
            => GetTransponder(World)' = NoLink
       /\ (GetTransponder(World) = NoLink /\ lastOp'.op # "attachTo")
            => GetTransponder(World)' = NoLink]_vars

\* Method invocations made on link l after it had ended.
CallsAfterEnd(l) ==
    {links[l].calls[i].m : i \in (links[l].endedAt + 1)..Len(links[l].calls)}

\* C5: once a link has ended on its own the track no longer references it
\* and never invokes stop() or mute() on it afterwards.
C5_SelfTerminationClearsReference ==
    \A l \in LinkIds :
        links[l].autonomous =>
            /\ GetTransponder(World) # l
            /\ CallsAfterEnd(l) \cap {"stop", "mute"} = {}

\* Number of notifications called name in the sequence ev.
Emitted(ev, name) == Cardinality({i \in 1..Len(ev) : ev[i].name = name})

\* C6: "stopped" is emitted once, by the first stop(); a stop() after an
\* earlier stop() changes nothing of the track or of any link and emits
\* nothing.
C6_StopIdempotent ==
    [][/\ Emitted(events', "stopped") <= 1
       /\ lastOp'.op = "stop" =>
            /\ Emitted(events', "stopped") = 1
            /\ Calls("stop") >= 1 => World' = World]_vars

C6_Witness ==
    /\ lastOp.op = "stop"
    /\ Calls("stop") >= 2
    /\ Calls("attachTo") >= 1
    /\ Emitted(events, "stopped") = 1

\* C7: mute(x) on a stopped track changes neither the muted flag nor the
\* emitted notifications, and invokes no method of any link.
C7_MuteOnStoppedIsNoOp ==
    [][(lastOp'.op = "mute" /\ Calls("stop") >= 1) =>
            /\ muted' = muted
            /\ events' = events
            /\ links' = links]_vars

\* C8: attachTo on a stopped track creates no link, leaves the link
\* reference at none, binds no link to the incoming track and leaves the
\* track stopped.
C8_AttachOnStoppedIsNoOp ==
    [][(lastOp'.op = "attachTo" /\ Calls("stop") >= 1) =>
            /\ links' = links
            /\ GetTransponder(World)' = NoLink
            /\ sender' = Null]_vars

\* C9: on a live track mute(x) sets the flag to x and emits "muted" with
\* payload x exactly when x differs from the flag before the call.
C9_MutedEmittedOnChangeOnly ==
    [][(lastOp'.op = "mute" /\ sender # Null) =>
            /\ muted' = lastOp'.flag
            /\ events' = IF muted # lastOp'.flag
                         THEN Append(events, Event("muted", lastOp'.flag))
                         ELSE events]_vars

C9_Witness ==
    /\ sender # Null
    /\ Emitted(events, "muted") = 1
    /\ \E i \in 1..(Len(history) - 1) :
           /\ history[i] = Op("mute", TRUE, NoIncoming)
           /\ history[i + 1] = Op("mute", TRUE, NoIncoming)

\* The link attached to the track: created by attachTo and not detached,
\* stopped or ended since; NoLink when there is none.
Attached ==
    IF transponder # NoLink /\ links[transponder].live
    THEN transponder
    ELSE NoLink

\* C10: mute(x) invokes mute(x) once on the attached link, whatever the
\* flag is, and invokes no method of any link when none is attached.
C10_MuteForwardedToAttachedLink ==
    [][lastOp'.op = "mute" =>
            \A l \in LinkIds :
                links'[l].calls =
                    IF l = Attached
                    THEN Append(links[l].calls,
                                Call("mute", lastOp'.flag, NoIncoming))
                    ELSE links[l].calls]_vars

\* C11: whenever the track holds a live link, the link's muted flag equals
\* the track's; a link attached to a muted track is muted when attachTo
\* returns.
C11_LinkMirrorsMutedFlag ==
    \A l \in LinkIds :
        (l = GetTransponder(World) /\ links[l].live) =>
            links[l].muted = muted

C11_Witness ==
    /\ lastOp.op = "attachTo"
    /\ muted
    /\ links[transponder].live
    /\ links[transponder].muted
    /\ Len(history) >= 2
    /\ history[Len(history) - 1] = Op("mute", TRUE, NoIncoming)

\* C12: detach() with no link attached (never attached, detached already,
\* or ended on its own) changes nothing of the track or of any link and
\* emits nothing.
C12_DetachWithoutLinkIsNoOp ==
    [][(lastOp'.op = "detach" /\ Attached = NoLink) => World' = World]_vars

\* The source of role r of the track's triple is there.
Present(r) == source # None /\ source[1][r] # None

\* C13: getStats() on a live track with an absent role does not fail; it
\* answers a mapping with an absent entry for each absent role and the
\* snapshot of each present one.
C13_GetStatsToleratesAbsentRoles ==
    (/\ lastOp.op = "getStats"
     /\ sender # Null
     /\ \E r \in Roles : ~Present(r)) =>
        /\ ~returned.threw
        /\ \A r \in Roles :
              IF Present(r)
              THEN returned.value[1][r].numPackets
                       = source[1][r][1].numPackets
              ELSE returned.value[1][r] = None

C15_RembForwardedOnce ==
    [][lastOp'.op = "remb" =>
        /\ events' = Append(events, RembEvent(lastOp'.bitrate))
        /\ UNCHANGED <<muted, sender, source, transponder, links>>]_vars

C15_Witness ==
    /\ Emitted(events, "remb") = 2
    /\ Len(history) >= 2
    /\ history[Len(history)] = RembOp(300000)
    /\ history[Len(history) - 1] = RembOp(300000)

\* C16: the track removes its listener from a link before it stops the
\* link, so its handler runs only for a link that ended on its own.
C16_OffBeforeStop ==
    /\ \A l \in LinkIds :
          \A i \in 1..Len(links[l].calls) :
              links[l].calls[i].m = "stop" =>
                  (i > 1 /\ links[l].calls[i - 1].m = "off")
    /\ transpoder = Null => \E l \in LinkIds : links[l].autonomous

C16_Witness ==
    /\ Calls("detach") >= 1
    /\ Calls("stop") >= 1
    /\ Calls("attachTo") >= 2
    /\ \E l \in LinkIds : Invocations(l, "stop") >= 1
    /\ transpoder = Undefined

\* C17: attachTo invokes on the new link, in this order, mute(true) if the
\* track is muted, setIncomingTrack, once("stopped"); a link of a muted
\* track is muted before it is bound.
C17_MuteBeforeBindBeforeSubscribe ==
    [][lastOp'.op = "attachTo" =>
        links'[Len(links')].calls =
            (IF muted THEN <<Call("mute", TRUE, NoIncoming)>> ELSE <<>>)
            \o <<Call("setIncomingTrack", FALSE, lastOp'.inc),
                  Call("once", FALSE, NoIncoming)>>]_vars

C17_Witness ==
    /\ lastOp.op = "attachTo"
    /\ muted
    /\ Len(links) >= 2
    /\ links[Len(links)].calls[1] = Call("mute", TRUE, NoIncoming)
    /\ links[Len(links)].track = lastOp.inc
    /\ links[Len(links)].muted

\* C19: the track's handler is subscribed only on the link the track
\* references, and only while that link is live.
C19_ListenerOnlyOnCurrentLiveLink ==
    \A l \in LinkIds :
        links[l].listener => (l = GetTransponder(World) /\ links[l].live)

C19_Witness ==
    /\ Len(links) >= 3
    /\ links[3].listener
    /\ ~links[1].listener
    /\ links[1].autonomous
    /\ ~links[2].listener
    /\ ~links[2].autonomous

\* C20: attachTo and detach leave the muted flag, the sender and the
\* sources as they are and emit nothing; mute leaves the link reference,
\* the sender and the sources as they are, creates no link and stops none.
C20_FrameConditions ==
    [][/\ lastOp'.op \in {"attachTo", "detach"} =>
            /\ muted' = muted
            /\ sender' = sender
            /\ source' = source
            /\ events' = events
       /\ lastOp'.op = "mute" =>
            /\ GetTransponder(World)' = GetTransponder(World)
            /\ sender' = sender
            /\ source' = source
            /\ Len(links') = Len(links)
            /\ \A l \in LinkIds :
                  /\ links'[l].live = links[l].live
                  /\ Invocations(l, "stop")' = Invocations(l, "stop")]_vars

C20_Witness ==
    /\ lastOp.op = "mute"
    /\ muted
    /\ Attached # NoLink
    /\ Calls("attachTo") >= 2
    /\ Calls("detach") >= 1

\* C18: when a "stopped" subscriber calls stop() from inside its handler,
\* the stop() of a live track still emits "stopped" once in all, stops
\* each link at most once and leaves the track stopped.
C18_ReentrantStopTearsDownOnce ==
    [][(lastOp'.op = "stop" /\ sender # Null /\ stopSubscriber) =>
        /\ Emitted(events', "stopped") = 1
        /\ \A l \in LinkIds :
              Invocations(l, "stop")' <= Invocations(l, "stop") + 1
        /\ sender' = Null]_vars

====
